---- MODULE Spec2Model ----
(***************************************************************************)
(* Five-tank mixing process with MPC/PI control and a real-time            *)
(* orchestrator (wrlxavier/mpc-conical-tank-synoptic).                     *)
(*                                                                         *)
(* Fixed-point units used for the floating-point quantities of the code:   *)
(*   level          cm            (3.00 m  = 300)                          *)
(*   concentration  0.1 kg/m3     (360     = 3600)                         *)
(*   actuator       1e-5          (1.0     = 100000)                       *)
(*   flow           cL/s          (0.008 m3/s = 800)                       *)
(*   radius         mm,  area cm2,  volume L                               *)
(*   time           ds            (0.5 s   = 5)                            *)
(*   dh/dt          1e-4 cm/s,   dC/dt  1e-3 kg/m3/s                       *)
(* Divisions round down; NaN and infinities are not represented.           *)
(***************************************************************************)
EXTENDS Integers, Sequences, FiniteSets, TLC

VARIABLES
    modelo,        \* SistemaCompleto instance (NoModel before it is built)
    last,          \* outcome of the most recent call on the physics model
    nops,          \* number of direct calls made so far
    controladores, \* SistemaControle instance (NoControl before it is built)
    lastMpc,       \* outcome of the most recent ControladorMPC.calcular_controle
    realtime_service, \* the RealTimeService instance of main.py
    now,           \* time.time(), in ds
    lifespan,      \* "up" until the application's shutdown hook has run
    conns,         \* per websocket: its command listener and its loop task
    emitidos,      \* session ids returned by initialize, oldest first
    gasto,         \* commands received and clock advances so far
    pausa          \* when the session was last paused and last resumed (-1: never)

physVars == <<modelo, last>>

mpcVars == <<controladores, lastMpc>>

svcVars == <<realtime_service, now, lifespan, conns, emitidos, gasto, pausa>>

vars ==
    <<modelo, last, nops, controladores, lastMpc,
      realtime_service, now, lifespan, conns, emitidos, gasto, pausa>>

----------------------------------------------------------------------------
(* parametros_sistema.py *)

DT_INTEGRACAO == 5
TS_CONTROLADOR == 50
CB == 3600
KV_VALVULA == 1600
KP_BOMBA_AGUA == 800
KP_BOMBA_SALMOURA == 800
KV_SUPRIMENTO_A == 4800
KV_SUPRIMENTO_B == 4800
RAIO_INFERIOR == 750
RAIO_SUPERIOR == 1250
ALTURA_MAXIMA == 300
RAIO_UTILIDADE == 1750
C_min == 0
C_max == 3600
U_ONE == 100000

PONTO_OPERACAO ==
    [hA_eq |-> 150, hB_eq |-> 150, h_eq |-> 150, C_eq |-> 1800,
     uA_eq |-> 30600, uB_eq |-> 30600,
     u1_eq |-> 61250, u2_eq |-> 61250, u3_eq |-> 50000]

LIMITES_ATUADORES ==
    [u1_min |-> 0, u1_max |-> U_ONE, u2_min |-> 0, u2_max |-> U_ONE,
     u3_min |-> 0, u3_max |-> U_ONE, uA_min |-> 0, uA_max |-> U_ONE,
     uB_min |-> 0, uB_max |-> U_ONE]

CONDICOES_INICIAIS ==
    [hA_0 |-> PONTO_OPERACAO.hA_eq, hB_0 |-> PONTO_OPERACAO.hB_eq,
     hC_0 |-> PONTO_OPERACAO.h_eq, CC_0 |-> PONTO_OPERACAO.C_eq,
     hD_0 |-> PONTO_OPERACAO.h_eq, CD_0 |-> PONTO_OPERACAO.C_eq,
     hE_0 |-> PONTO_OPERACAO.h_eq, CE_0 |-> PONTO_OPERACAO.C_eq]

(* Names used by modelo_tanques.py but defined in a parameter module that  *)
(* is not part of the sources; taken from the documented vector orders.    *)
ORDEM_ESTADOS == <<"hA", "hB", "hC", "CC", "hD", "CD", "hE", "CE">>

ORDEM_CONTROLES ==
    <<"uA", "uB", "uC1", "uC2", "uC3", "uD1", "uD2", "uD3", "uE1", "uE2", "uE3">>

ESTADO_OPERACIONAL_VETOR ==
    <<PONTO_OPERACAO.hA_eq, PONTO_OPERACAO.hB_eq,
      PONTO_OPERACAO.h_eq, PONTO_OPERACAO.C_eq,
      PONTO_OPERACAO.h_eq, PONTO_OPERACAO.C_eq,
      PONTO_OPERACAO.h_eq, PONTO_OPERACAO.C_eq>>

CONTROLE_OPERACIONAL_VETOR ==
    <<PONTO_OPERACAO.uA_eq, PONTO_OPERACAO.uB_eq,
      PONTO_OPERACAO.u1_eq, PONTO_OPERACAO.u2_eq, PONTO_OPERACAO.u3_eq,
      PONTO_OPERACAO.u1_eq, PONTO_OPERACAO.u2_eq, PONTO_OPERACAO.u3_eq,
      PONTO_OPERACAO.u1_eq, PONTO_OPERACAO.u2_eq, PONTO_OPERACAO.u3_eq>>

----------------------------------------------------------------------------
(* numeric helpers *)

Min(a, b) == IF a <= b THEN a ELSE b

Max(a, b) == IF a >= b THEN a ELSE b

\* np.clip
clip(v, lo, hi) == Min(Max(v, lo), hi)

\* np.sqrt on the fixed-point grid: floor of the square root, by bisection
RECURSIVE sqrt_entre(_, _, _)
sqrt_entre(n, lo, hi) ==
    IF hi - lo <= 1 THEN lo
    ELSE LET mid == (lo + hi) \div 2
         IN  IF mid * mid <= n THEN sqrt_entre(n, mid, hi) ELSE sqrt_entre(n, lo, mid)

sqrt(n) == sqrt_entre(n, 0, 1024)

\* position of a name in an order tuple (0 when absent)
IndexOf(ordem, nome) ==
    IF \E i \in 1..Len(ordem) : ordem[i] = nome
    THEN CHOOSE i \in 1..Len(ordem) : ordem[i] = nome
    ELSE 0

----------------------------------------------------------------------------
(* modelo_tanques.py : TanqueCilindrico *)

\* np.pi * raio**2, radius in mm, result in cm2
AreaCirculo(r) == (((r * r) \div 100) * 355) \div 113

TanqueCilindrico(raio, altura_max, nivel_inicial) ==
    [raio |-> raio, altura_max |-> altura_max, area |-> AreaCirculo(raio),
     nivel |-> nivel_inicial, vazao_entrada |-> 0, vazao_saida |-> 0]

Cil_set_vazoes(t, vazao_entrada, vazao_saida) ==
    [t EXCEPT !.vazao_entrada = Max(0, vazao_entrada),
              !.vazao_saida = Max(0, vazao_saida)]

Cil_derivada_nivel(t) ==
    (100000 * (t.vazao_entrada - t.vazao_saida)) \div t.area

\* RK4 on the level; the derivative does not depend on the level
Cil_atualizar_unclipped(t, dt) ==
    LET h0 == t.nivel
        k1 == Cil_derivada_nivel(t)
        k2 == Cil_derivada_nivel([t EXCEPT !.nivel = h0 + (k1 * dt) \div 200000])
        k3 == Cil_derivada_nivel([t EXCEPT !.nivel = h0 + (k2 * dt) \div 200000])
        k4 == Cil_derivada_nivel([t EXCEPT !.nivel = h0 + (k3 * dt) \div 100000])
    IN  [t EXCEPT !.nivel = h0 + ((k1 + 2 * k2 + 2 * k3 + k4) * dt) \div 600000]

Cil_atualizar(t, dt) ==
    LET n == Cil_atualizar_unclipped(t, dt)
    IN  [n EXCEPT !.nivel = clip(n.nivel, 0, t.altura_max)]

----------------------------------------------------------------------------
(* modelo_tanques.py : TanqueTroncoConico *)

TanqueTroncoConico(nivel_inicial, concentracao_inicial) ==
    [raio_inferior |-> RAIO_INFERIOR, raio_superior |-> RAIO_SUPERIOR,
     altura_max |-> ALTURA_MAXIMA, kv |-> KV_VALVULA,
     kp_agua |-> KP_BOMBA_AGUA, kp_salmoura |-> KP_BOMBA_SALMOURA,
     nivel |-> nivel_inicial, concentracao |-> concentracao_inicial,
     u1 |-> 0, u2 |-> 0, u3 |-> 0, CB |-> CB]

set_controles(t, u1, u2, u3) ==
    [t EXCEPT !.u1 = clip(u1, 0, U_ONE),
              !.u2 = clip(u2, 0, U_ONE),
              !.u3 = clip(u3, 0, U_ONE)]

\* raio_inferior + dr_dh * h, with dr_dh = (raio_superior - raio_inferior) / altura_max
calcular_raio(t, h) ==
    t.raio_inferior + ((t.raio_superior - t.raio_inferior) * h) \div t.altura_max

calcular_area(t, h) == AreaCirculo(calcular_raio(t, h))

\* (pi * h / 3) * (R0^2 + R0 * r + r^2), in litres
calcular_volume(t, h) ==
    LET r_h == calcular_raio(t, h)
        s == t.raio_inferior * t.raio_inferior + t.raio_inferior * r_h + r_h * r_h
    IN  (((h * (s \div 100)) \div 1000) * 355) \div 339

\* <<Q_agua, Q_salmoura, Q_saida>>; sqrt(h in m) = sqrt(100 * h in cm) / 100
calcular_vazoes(t) ==
    <<(t.kp_agua * t.u1) \div U_ONE,
      (t.kp_salmoura * t.u2) \div U_ONE,
      ((t.kv \div 100) * t.u3 * sqrt(100 * Max(t.nivel, 0))) \div U_ONE>>

derivada_nivel(t) ==
    LET Q == calcular_vazoes(t)
        A_h == calcular_area(t, t.nivel)
    IN  IF A_h <= 0 THEN 0
        ELSE (100000 * (Q[1] + Q[2] - Q[3])) \div A_h

derivada_concentracao(t) ==
    LET Q == calcular_vazoes(t)
        V_h == calcular_volume(t, t.nivel)
    IN  IF V_h <= 0 THEN 0
        ELSE (Q[2] * t.CB - t.concentracao * (Q[1] + Q[2])) \div V_h

\* the coupled RK4 step before saturation: the concentration stages replay
\* the intermediate levels of the level stages
Tronco_atualizar_unclipped(t, dt) ==
    LET h0 == t.nivel
        C0 == t.concentracao
        h1 == h0
        k1_h == derivada_nivel([t EXCEPT !.nivel = h1])
        h2 == h0 + (k1_h * dt) \div 200000
        k2_h == derivada_nivel([t EXCEPT !.nivel = h2])
        h3 == h0 + (k2_h * dt) \div 200000
        k3_h == derivada_nivel([t EXCEPT !.nivel = h3])
        h4 == h0 + (k3_h * dt) \div 100000
        k4_h == derivada_nivel([t EXCEPT !.nivel = h4])
        novo_nivel == h0 + ((k1_h + 2 * k2_h + 2 * k3_h + k4_h) * dt) \div 600000
        k1_C == derivada_concentracao([t EXCEPT !.nivel = h1, !.concentracao = C0])
        k2_C == derivada_concentracao(
                    [t EXCEPT !.nivel = h2, !.concentracao = C0 + (k1_C * dt) \div 2000])
        k3_C == derivada_concentracao(
                    [t EXCEPT !.nivel = h3, !.concentracao = C0 + (k2_C * dt) \div 2000])
        k4_C == derivada_concentracao(
                    [t EXCEPT !.nivel = h4, !.concentracao = C0 + (k3_C * dt) \div 1000])
        nova_concentracao == C0 + ((k1_C + 2 * k2_C + 2 * k3_C + k4_C) * dt) \div 6000
    IN  [t EXCEPT !.nivel = novo_nivel, !.concentracao = nova_concentracao]

\* mutant: the final saturation of level and concentration is dropped
Tronco_atualizar_sem_saturacao(t, dt) == Tronco_atualizar_unclipped(t, dt)

Tronco_atualizar(t, dt) ==
    LET n == Tronco_atualizar_unclipped(t, dt)
    IN  [n EXCEPT !.nivel = clip(n.nivel, 0, t.altura_max),
                  !.concentracao = clip(n.concentracao, 0, t.CB)]

----------------------------------------------------------------------------
(* modelo_tanques.py : SistemaCompleto *)

NoModel == [none |-> TRUE]

None == [kind |-> "none"]

Vec(v) == [kind |-> "vec", val |-> v]

Dict(d) == [kind |-> "dict", val |-> d]

\* a tuple read as the dict that zips an order tuple with it
ZipDict(ordem, valores) ==
    [nome \in {ordem[i] : i \in 1..Len(ordem)} |-> valores[IndexOf(ordem, nome)]]

controles_padrao == ZipDict(ORDEM_CONTROLES, CONTROLE_OPERACIONAL_VETOR)

SistemaCompleto ==
    [tanque_A |-> TanqueCilindrico(RAIO_UTILIDADE, ALTURA_MAXIMA, CONDICOES_INICIAIS.hA_0),
     tanque_B |-> TanqueCilindrico(RAIO_UTILIDADE, ALTURA_MAXIMA, CONDICOES_INICIAIS.hB_0),
     tanque_C |-> TanqueTroncoConico(CONDICOES_INICIAIS.hC_0, CONDICOES_INICIAIS.CC_0),
     tanque_D |-> TanqueTroncoConico(CONDICOES_INICIAIS.hD_0, CONDICOES_INICIAIS.CD_0),
     tanque_E |-> TanqueTroncoConico(CONDICOES_INICIAIS.hE_0, CONDICOES_INICIAIS.CE_0),
     estado_cache |-> ESTADO_OPERACIONAL_VETOR,
     controle_cache |-> controles_padrao]

montar_estado_dict(m) ==
    [hA |-> m.tanque_A.nivel, hB |-> m.tanque_B.nivel,
     hC |-> m.tanque_C.nivel, CC |-> m.tanque_C.concentracao,
     hD |-> m.tanque_D.nivel, CD |-> m.tanque_D.concentracao,
     hE |-> m.tanque_E.nivel, CE |-> m.tanque_E.concentracao]

montar_estado_array(m) ==
    [i \in 1..Len(ORDEM_ESTADOS) |-> montar_estado_dict(m)[ORDEM_ESTADOS[i]]]

atualizar_estado_cache(m) == [m EXCEPT !.estado_cache = montar_estado_array(m)]

\* [raised, vetor]
converter_estado_para_array(m, estado) ==
    IF estado.kind = "none" THEN [raised |-> FALSE, vetor |-> m.estado_cache]
    ELSE LET vetor ==
                 IF estado.kind = "dict"
                 THEN [i \in 1..Len(ORDEM_ESTADOS) |->
                          IF ORDEM_ESTADOS[i] \in DOMAIN estado.val
                          THEN estado.val[ORDEM_ESTADOS[i]]
                          ELSE m.estado_cache[i]]
                 ELSE estado.val
         IN  IF Len(vetor) # Len(ORDEM_ESTADOS)
             THEN [raised |-> TRUE, vetor |-> <<>>]
             ELSE [raised |-> FALSE, vetor |-> vetor]

limites_map ==
    [uA |-> <<"uA_min", "uA_max">>, uB |-> <<"uB_min", "uB_max">>,
     uC1 |-> <<"u1_min", "u1_max">>, uC2 |-> <<"u2_min", "u2_max">>,
     uC3 |-> <<"u3_min", "u3_max">>,
     uD1 |-> <<"u1_min", "u1_max">>, uD2 |-> <<"u2_min", "u2_max">>,
     uD3 |-> <<"u3_min", "u3_max">>,
     uE1 |-> <<"u1_min", "u1_max">>, uE2 |-> <<"u2_min", "u2_max">>,
     uE3 |-> <<"u3_min", "u3_max">>]

\* [raised, dict]
converter_controles_para_dict(m, controles) ==
    LET bad == controles.kind = "vec" /\ Len(controles.val) # Len(ORDEM_CONTROLES)
        valores ==
            IF controles.kind = "none"
            THEN [i \in 1..Len(ORDEM_CONTROLES) |-> m.controle_cache[ORDEM_CONTROLES[i]]]
            ELSE IF controles.kind = "dict"
            THEN [i \in 1..Len(ORDEM_CONTROLES) |->
                     IF ORDEM_CONTROLES[i] \in DOMAIN controles.val
                     THEN controles.val[ORDEM_CONTROLES[i]]
                     ELSE m.controle_cache[ORDEM_CONTROLES[i]]]
            ELSE controles.val
        controle_dict == ZipDict(ORDEM_CONTROLES, valores)
    IN  IF bad THEN [raised |-> TRUE, dict |-> << >>]
        ELSE [raised |-> FALSE,
              dict |-> [chave \in DOMAIN controle_dict |->
                           clip(controle_dict[chave],
                                LIMITES_ATUADORES[limites_map[chave][1]],
                                LIMITES_ATUADORES[limites_map[chave][2]])]]

atualizar_sistema(m, dt, controles) ==
    LET tC == set_controles(m.tanque_C, controles["uC1"], controles["uC2"], controles["uC3"])
        tD == set_controles(m.tanque_D, controles["uD1"], controles["uD2"], controles["uD3"])
        tE == set_controles(m.tanque_E, controles["uE1"], controles["uE2"], controles["uE3"])
        Q_saida_A == (tC.kp_agua * tC.u1) \div U_ONE + (tD.kp_agua * tD.u1) \div U_ONE
                     + (tE.kp_agua * tE.u1) \div U_ONE
        Q_saida_B == (tC.kp_salmoura * tC.u2) \div U_ONE + (tD.kp_salmoura * tD.u2) \div U_ONE
                     + (tE.kp_salmoura * tE.u2) \div U_ONE
        Q_entrada_A == (KV_SUPRIMENTO_A * controles["uA"]) \div U_ONE
        Q_entrada_B == (KV_SUPRIMENTO_B * controles["uB"]) \div U_ONE
        tA == Cil_set_vazoes(m.tanque_A, Q_entrada_A, Q_saida_A)
        tB == Cil_set_vazoes(m.tanque_B, Q_entrada_B, Q_saida_B)
    IN  atualizar_estado_cache(
            [m EXCEPT !.tanque_A = Cil_atualizar(tA, dt),
                      !.tanque_B = Cil_atualizar(tB, dt),
                      !.tanque_C = Tronco_atualizar(tC, dt),
                      !.tanque_D = Tronco_atualizar(tD, dt),
                      !.tanque_E = Tronco_atualizar(tE, dt)])

\* [m, ret]: refreshes the cache and returns a copy of it
obter_estado(m) ==
    LET n == atualizar_estado_cache(m) IN [m |-> n, ret |-> n.estado_cache]

\* mutant: the concentration of tank D is taken from the level slot of tank E
definir_estado_indice_trocado(m, estado) ==
    LET c == converter_estado_para_array(m, estado)
        vetor == c.vetor
    IN  IF c.raised THEN [raised |-> TRUE, m |-> m]
        ELSE [raised |-> FALSE,
              m |-> atualizar_estado_cache(
                  [m EXCEPT
                     !.tanque_A.nivel = clip(vetor[1], 0, m.tanque_A.altura_max),
                     !.tanque_B.nivel = clip(vetor[2], 0, m.tanque_B.altura_max),
                     !.tanque_C.nivel = clip(vetor[3], 0, m.tanque_C.altura_max),
                     !.tanque_C.concentracao = clip(vetor[4], C_min, CB),
                     !.tanque_D.nivel = clip(vetor[5], 0, m.tanque_D.altura_max),
                     !.tanque_D.concentracao = clip(vetor[7], C_min, CB),
                     !.tanque_E.nivel = clip(vetor[7], 0, m.tanque_E.altura_max),
                     !.tanque_E.concentracao = clip(vetor[8], C_min, CB)])]

\* [raised, m]
definir_estado(m, estado) ==
    LET c == converter_estado_para_array(m, estado)
        vetor == c.vetor
    IN  IF c.raised THEN [raised |-> TRUE, m |-> m]
        ELSE [raised |-> FALSE,
              m |-> atualizar_estado_cache(
                  [m EXCEPT
                     !.tanque_A.nivel = clip(vetor[1], 0, m.tanque_A.altura_max),
                     !.tanque_B.nivel = clip(vetor[2], 0, m.tanque_B.altura_max),
                     !.tanque_C.nivel = clip(vetor[3], 0, m.tanque_C.altura_max),
                     !.tanque_C.concentracao = clip(vetor[4], C_min, CB),
                     !.tanque_D.nivel = clip(vetor[5], 0, m.tanque_D.altura_max),
                     !.tanque_D.concentracao = clip(vetor[6], C_min, CB),
                     !.tanque_E.nivel = clip(vetor[7], 0, m.tanque_E.altura_max),
                     !.tanque_E.concentracao = clip(vetor[8], C_min, CB)])]

\* (metodo or "rk4").lower()
NoMetodo == "<None>"

lower(metodo) ==
    IF metodo \in {NoMetodo, ""} THEN "rk4"
    ELSE IF metodo \in {"RK4", "Rk4"} THEN "rk4"
    ELSE IF metodo \in {"EULER", "Euler"} THEN "euler"
    ELSE metodo

(* A duration is a whole number of deciseconds, the unit of the physics,     *)
(* plus a remainder counted in tenths of a nanosecond, 0 <= sub < SUB_POR_DS, *)
(* so that the loop's tolerance of 1e-9 s can be told from zero.             *)
SUB_POR_DS == 1000000000

Duracao(ds, sub) == [ds |-> ds, sub |-> sub]

Decimos(ds) == Duracao(ds, 0)

DMaior(a, b) == a.ds > b.ds \/ (a.ds = b.ds /\ a.sub > b.sub)

DMin(a, b) == IF DMaior(a, b) THEN b ELSE a

DSub(a, b) ==
    IF a.sub >= b.sub THEN Duracao(a.ds - b.ds, a.sub - b.sub)
    ELSE Duracao(a.ds - b.ds - 1, a.sub + SUB_POR_DS - b.sub)

DAdd(a, b) ==
    IF a.sub + b.sub < SUB_POR_DS THEN Duracao(a.ds + b.ds, a.sub + b.sub)
    ELSE Duracao(a.ds + b.ds + 1, a.sub + b.sub - SUB_POR_DS)

\* 1e-9 s
TOLERANCIA == Duracao(0, 10)

\* mutant: every micro-step has the reference size, the last one included
RECURSIVE passos_sem_min(_, _)
passos_sem_min(passo_referencia, tempo_restante) ==
    IF DMaior(tempo_restante, TOLERANCIA)
    THEN <<passo_referencia>>
         \o passos_sem_min(passo_referencia, DSub(tempo_restante, passo_referencia))
    ELSE << >>

\* while tempo_restante > 1e-9: the micro-steps taken, first to last
RECURSIVE passos(_, _)
passos(passo_referencia, tempo_restante) ==
    IF DMaior(tempo_restante, TOLERANCIA)
    THEN <<DMin(passo_referencia, tempo_restante)>>
         \o passos(passo_referencia,
                   DSub(tempo_restante, DMin(passo_referencia, tempo_restante)))
    ELSE << >>

\* the physics is computed in deciseconds: the part of a micro-step below
\* that resolution does not move the fixed-point state
RECURSIVE aplicar_passos(_, _, _)
aplicar_passos(m, ps, controles_dict) ==
    IF ps = << >> THEN m
    ELSE aplicar_passos(atualizar_sistema(m, Head(ps).ds, controles_dict), Tail(ps),
                        controles_dict)

\* the calls of atualizar_sistema made by the loop, first to last
chamadas(ps, controles_dict) ==
    [i \in 1..Len(ps) |-> [passo |-> ps[i], controles |-> controles_dict]]

\* line 633: return self.obter_estado()
retornar_estado(o, ch) == [raised |-> FALSE, m |-> o.m, ret |-> o.ret, chamadas |-> ch]

\* lines 625-633, for a valid method; [raised, m, ret, chamadas]
integrar(m1, ps, controles_dict) ==
    retornar_estado(obter_estado(aplicar_passos(m1, ps, controles_dict)),
                    chamadas(ps, controles_dict))

\* mutant: an unknown method name is integrated as rk4 instead of rejected
integrar_passo_sem_validar_metodo(m, controles, dt, metodo) ==
    IF ~DMaior(dt, Decimos(0))
    THEN [raised |-> FALSE, m |-> obter_estado(m).m, ret |-> obter_estado(m).ret,
          chamadas |-> << >>]
    ELSE LET c == converter_controles_para_dict(m, controles) IN
         IF c.raised THEN [raised |-> TRUE, m |-> m, ret |-> << >>, chamadas |-> << >>]
         ELSE LET m1 == [m EXCEPT !.controle_cache = c.dict]
                  met == lower(metodo)
                  passo_referencia ==
                      IF met = "euler" THEN dt ELSE Decimos(DT_INTEGRACAO)
              IN  integrar(m1, passos(passo_referencia, dt), c.dict)

\* [raised, m, ret, chamadas]
integrar_passo(m, controles, dt, metodo) ==
    IF ~DMaior(dt, Decimos(0))
    THEN [raised |-> FALSE, m |-> obter_estado(m).m, ret |-> obter_estado(m).ret,
          chamadas |-> << >>]
    ELSE LET c == converter_controles_para_dict(m, controles) IN
         IF c.raised THEN [raised |-> TRUE, m |-> m, ret |-> << >>, chamadas |-> << >>]
         ELSE LET m1 == [m EXCEPT !.controle_cache = c.dict]
                  met == lower(metodo)
              IN  IF met \notin {"rk4", "euler"}
                  THEN [raised |-> TRUE, m |-> m1, ret |-> << >>, chamadas |-> << >>]
                  ELSE LET passo_referencia ==
                               IF met = "euler" THEN dt ELSE Decimos(DT_INTEGRACAO)
                       IN  integrar(m1, passos(passo_referencia, dt), c.dict)

----------------------------------------------------------------------------
(* controlador_mpc.py : ControladorMPC *)

Np == 50
Nc == 20
KP_PID == 15
KI_PID == 25
ANTI_WINDUP == 10000
FATOR_CONSERVADOR == 9

u_min == <<LIMITES_ATUADORES.u1_min, LIMITES_ATUADORES.u2_min, LIMITES_ATUADORES.u3_min>>

u_max == <<LIMITES_ATUADORES.u1_max, LIMITES_ATUADORES.u2_max, LIMITES_ATUADORES.u3_max>>

LIMITES_VARIACAO == [delta_u1_max |-> 20000, delta_u2_max |-> 20000, delta_u3_max |-> 15000]

delta_u_max ==
    <<LIMITES_VARIACAO.delta_u1_max, LIMITES_VARIACAO.delta_u2_max,
      LIMITES_VARIACAO.delta_u3_max>>

u_eq == <<PONTO_OPERACAO.u1_eq, PONTO_OPERACAO.u2_eq, PONTO_OPERACAO.u3_eq>>

x_eq == <<PONTO_OPERACAO.h_eq, PONTO_OPERACAO.C_eq>>

Abs(a) == IF a < 0 THEN -a ELSE a

VAdd(a, b) == [i \in DOMAIN a |-> a[i] + b[i]]

VSub(a, b) == [i \in DOMAIN a |-> a[i] - b[i]]

VClip(a, lo, hi) == [i \in DOMAIN a |-> clip(a[i], lo[i], hi[i])]

ControladorMPC(nome_tanque) ==
    [nome |-> nome_tanque, erro_integral |-> <<0, 0>>, u_anterior |-> u_eq]

\* numpy broadcasting of v - x_eq: a 1-vector is stretched, other lengths fail
FormaCompativel(v) == Len(v) \in {1, 2}

Desvio(v) ==
    IF Len(v) = 1 THEN <<v[1] - x_eq[1], v[1] - x_eq[2]>> ELSE VSub(v, x_eq)

(* The quadratic program is solved by an external solver (cvxpy/CLARABEL).   *)
(* Its answer is an input of the model: a status, or an exception, and for   *)
(* an accepted status a first move that meets the actuator bounds and the    *)
(* rate limit anchored at u_anterior up to the solver's feasibility          *)
(* tolerance.                                                                *)
SolverDesvios == {-10, 0, 10}

SolverTol == CHOOSE d \in SolverDesvios : \A e \in SolverDesvios : e <= d

StatusAceito == {"optimal", "optimal_inaccurate"}

\* restricoes nos controles, lines 296-308, for the first move u[:, 0] + u_eq
RestricoesControle(c, u) ==
    \A i \in 1..3 :
        /\ u_min[i] - SolverTol <= u[i] /\ u[i] <= u_max[i] + SolverTol
        /\ Abs(u[i] - c.u_anterior[i]) <= delta_u_max[i] + SolverTol

SolverMovimentos == {<<-1, -1, -1>>, <<0, 0, 0>>, <<1, 1, 1>>}

\* one answer pattern of the two solves: statuses, direction of the first
\* move in rate steps, and its deviation from the exact constraint set
SolverCenario(status, mv, d, status_r) ==
    [status |-> status, mv |-> mv, d |-> d, status_r |-> status_r]

SolverCenarios ==
    {SolverCenario(st, mv, d, "none") :
        st \in StatusAceito, mv \in SolverMovimentos, d \in SolverDesvios}
    \cup {SolverCenario("infeasible", mv, d, "optimal") :
        mv \in SolverMovimentos, d \in SolverDesvios}
    \cup {SolverCenario("infeasible", <<0, 0, 0>>, 0, st) : st \in {"infeasible", "raise"}}
    \cup {SolverCenario("raise", <<0, 0, 0>>, 0, "none")}

\* the answer of that pattern for controller c: u and u_r are u[:, 0].value
RespostaDoCenario(c, cen) ==
    LET u == [i \in 1..3 |->
                 clip(c.u_anterior[i] + cen.mv[i] * delta_u_max[i], u_min[i], u_max[i])
                 + cen.d]
    IN  [status |-> cen.status,
         u |-> IF cen.status \in StatusAceito THEN VSub(u, u_eq) ELSE << >>,
         status_r |-> cen.status_r,
         u_r |-> IF cen.status = "infeasible" /\ cen.status_r \in StatusAceito
                 THEN VSub(u, u_eq) ELSE << >>]

\* what the two solves of one call may answer
SolverRespostas(c) ==
    {r \in {RespostaDoCenario(c, cen) : cen \in SolverCenarios} :
        /\ r.status \in StatusAceito => RestricoesControle(c, VAdd(r.u, u_eq))
        /\ r.u_r # << >> => RestricoesControle(c, VAdd(r.u_r, u_eq))}

LIMITES_NIVEL == [h_min |-> 20, h_max |-> 280]

\* percent of the reference deviation
LIMITE_OVERSHOOT == 8

LIMITE_UNDERSHOOT == 8

\* lines 229, 256-264: the terms summed into custo
termos_custo == {"folga", "rastreamento", "esforco", "integral"}

\* lines 235-238, 246-253, 267-270, 297-308: the constraints that do not
\* depend on the sign of the reference; each family is posed at every step of
\* its horizon, limite holds the data of the controller it is built from
restricoes_comuns(c, x_dev) ==
    {[familia |-> "condicao_inicial", limite |-> x_dev],
     [familia |-> "integral_inicial", limite |-> c.erro_integral],
     [familia |-> "predicao", limite |-> << >>],
     [familia |-> "erro_integral", limite |-> << >>],
     [familia |-> "nivel_min_folga", limite |-> <<LIMITES_NIVEL.h_min - x_eq[1]>>],
     [familia |-> "nivel_max_folga", limite |-> <<LIMITES_NIVEL.h_max - x_eq[1]>>],
     [familia |-> "concentracao_min", limite |-> <<C_min - x_eq[2]>>],
     [familia |-> "concentracao_max", limite |-> <<C_max - x_eq[2]>>],
     [familia |-> "u_min", limite |-> VSub(u_min, u_eq)],
     [familia |-> "u_max", limite |-> VSub(u_max, u_eq)],
     [familia |-> "delta_u", limite |-> VSub(c.u_anterior, u_eq) \o delta_u_max]}

\* lines 272-294: anti-overshoot and anti-undershoot; limite in hundredths
\* of the state unit
restricoes_sobressinal(r_dev) ==
    (IF \E j \in DOMAIN r_dev : r_dev[j] > 0
     THEN {[familia |-> "teto_nivel",
            limite |-> <<r_dev[1] * (100 + LIMITE_OVERSHOOT)>>]}
     ELSE {})
    \cup
    (IF \E j \in DOMAIN r_dev : r_dev[j] < 0
     THEN {[familia |-> "piso_nivel",
            limite |-> <<r_dev[1] * (100 - LIMITE_UNDERSHOOT)>>]}
     ELSE {})
    \cup
    (IF r_dev[2] > 0
     THEN {[familia |-> "teto_concentracao",
            limite |-> <<r_dev[2] * (100 + LIMITE_OVERSHOOT)>>]}
     ELSE {})
    \cup
    (IF r_dev[2] < 0
     THEN {[familia |-> "piso_concentracao",
            limite |-> <<r_dev[2] * (100 - LIMITE_UNDERSHOOT)>>]}
     ELSE {})

\* lines 216-311: the problem of the full horizons
problema_completo(c, x_dev, r_dev) ==
    [Np |-> Np, Nc |-> Nc, custo |-> termos_custo,
     restricoes |-> restricoes_comuns(c, x_dev) \cup restricoes_sobressinal(r_dev)]

\* lines 353-399: the problem of the retry
problema_reduzido(c, x_dev, r_dev) ==
    [Np |-> Max(10, Np \div 2), Nc |-> Max(5, Nc \div 2), custo |-> termos_custo,
     restricoes |-> restricoes_comuns(c, x_dev)]

\* lines 332-345: the full-horizon solve was accepted
sucesso_completo(c, x_dev, r_dev, sol) ==
    [raised |-> FALSE,
     ret |-> VClip(VAdd(sol.u, u_eq), u_min, u_max),
     c |-> [c EXCEPT !.erro_integral = VAdd(c.erro_integral, VSub(x_dev, r_dev)),
                     !.u_anterior = VAdd(sol.u, u_eq)],
     caminho |-> "completo",
     solves |-> <<"completo">>,
     problemas |-> <<problema_completo(c, x_dev, r_dev)>>]

\* mutant: the memory of the previous action is left as it was
sucesso_reduzido_sem_memoria(c, x_dev, r_dev, sol) ==
    [raised |-> FALSE,
     ret |-> VClip(VAdd(sol.u_r, u_eq), u_min, u_max),
     c |-> c,
     caminho |-> "reduzido",
     solves |-> <<"completo", "reduzido">>,
     problemas |-> <<problema_completo(c, x_dev, r_dev),
                     problema_reduzido(c, x_dev, r_dev)>>]

\* lines 400-408: the reduced-horizon solve was accepted
sucesso_reduzido(c, x_dev, r_dev, sol) ==
    [raised |-> FALSE,
     ret |-> VClip(VAdd(sol.u_r, u_eq), u_min, u_max),
     c |-> [c EXCEPT !.u_anterior = VAdd(sol.u_r, u_eq)],
     caminho |-> "reduzido",
     solves |-> <<"completo", "reduzido">>,
     problemas |-> <<problema_completo(c, x_dev, r_dev),
                     problema_reduzido(c, x_dev, r_dev)>>]

\* mutant: the blend also advances the integral accumulator
controle_conservador_acumula(c, x_dev, r_dev) ==
    [raised |-> FALSE,
     ret |-> VClip([i \in 1..3 |->
                      (c.u_anterior[i] * FATOR_CONSERVADOR
                       + u_eq[i] * (10 - FATOR_CONSERVADOR)) \div 10],
                   u_min, u_max),
     c |-> [c EXCEPT !.erro_integral = VAdd(c.erro_integral, VSub(x_dev, r_dev))],
     caminho |-> "conservador",
     solves |-> <<"completo", "reduzido">>,
     problemas |-> <<problema_completo(c, x_dev, r_dev),
                     problema_reduzido(c, x_dev, r_dev)>>]

\* lines 415-421: both solves failed
controle_conservador(c, x_dev, r_dev) ==
    [raised |-> FALSE,
     ret |-> VClip([i \in 1..3 |->
                      (c.u_anterior[i] * FATOR_CONSERVADOR
                       + u_eq[i] * (10 - FATOR_CONSERVADOR)) \div 10],
                   u_min, u_max),
     c |-> c,
     caminho |-> "conservador",
     solves |-> <<"completo", "reduzido">>,
     problemas |-> <<problema_completo(c, x_dev, r_dev),
                     problema_reduzido(c, x_dev, r_dev)>>]

\* lines 313-427, from the first solve on
resolver(c, x_dev, r_dev, sol) ==
    IF sol.status = "raise"
    THEN [raised |-> FALSE, ret |-> c.u_anterior, c |-> c, caminho |-> "excecao",
          solves |-> <<"completo">>,
          problemas |-> <<problema_completo(c, x_dev, r_dev)>>]
    ELSE IF sol.status \in StatusAceito THEN sucesso_completo(c, x_dev, r_dev, sol)
    ELSE IF sol.status_r \in StatusAceito THEN sucesso_reduzido(c, x_dev, r_dev, sol)
    ELSE controle_conservador(c, x_dev, r_dev)

\* [raised, ret, c, caminho, solves, problemas]; solves and problemas list the
\* problems handed to the solver, in order
MPC_calcular_controle(c, x_medido, referencia, sol) ==
    IF ~(FormaCompativel(x_medido) /\ FormaCompativel(referencia))
    THEN \* the subtraction of x_eq raises before the try block is entered
         [raised |-> TRUE, ret |-> << >>, c |-> c, caminho |-> "construcao",
          solves |-> << >>, problemas |-> << >>]
    ELSE resolver(c, Desvio(x_medido), Desvio(referencia), sol)

----------------------------------------------------------------------------
(* controlador_mpc.py : ControladorPID, SistemaControle *)

ControladorPID(nome_reservatorio, Kp, Ki) ==
    [nome |-> nome_reservatorio, Kp |-> Kp, Ki |-> Ki, erro_integral |-> 0,
     setpoint |-> IF nome_reservatorio = "A" THEN PONTO_OPERACAO.hA_eq
                  ELSE PONTO_OPERACAO.hB_eq]

\* mutant: the accumulator is not clamped
PID_calcular_controle_sem_anti_windup(p, nivel_medido, Ts) ==
    LET erro == p.setpoint - nivel_medido
        P == p.Kp * erro * 1000
        integral == p.erro_integral + erro * Ts
        I == p.Ki * integral
    IN  [ret |-> clip(P + I, 0, U_ONE), p |-> [p EXCEPT !.erro_integral = integral]]

\* [ret, p]; erro in cm, integral in cm.ds, Kp per m, Ki in 1/100 per m.s
PID_calcular_controle(p, nivel_medido, Ts) ==
    LET erro == p.setpoint - nivel_medido
        P == p.Kp * erro * 1000
        integral == clip(p.erro_integral + erro * Ts, -ANTI_WINDUP, ANTI_WINDUP)
        I == p.Ki * integral
    IN  [ret |-> clip(P + I, 0, U_ONE), p |-> [p EXCEPT !.erro_integral = integral]]

NoControl == [none |-> TRUE]

SistemaControle(Ts) ==
    [Ts |-> Ts,
     mpc_C |-> ControladorMPC("C"), mpc_D |-> ControladorMPC("D"),
     mpc_E |-> ControladorMPC("E"),
     pid_A |-> ControladorPID("A", KP_PID, KI_PID),
     pid_B |-> ControladorPID("B", KP_PID, KI_PID)]

\* the dictionary of actions, as the vector of its values in key order, and the
\* controllers after the five calls a, b, cC, cD, cE
acoes_dict(ctl, a, b, cC, cD, cE) ==
    [ctl |-> [ctl EXCEPT !.pid_A = a.p, !.pid_B = b.p,
                         !.mpc_C = cC.c, !.mpc_D = cD.c, !.mpc_E = cE.c],
     acoes |-> <<a.ret, b.ret>> \o cC.ret \o cD.ret \o cE.ret]

\* [ctl, acoes]: acoes in the order of ORDEM_CONTROLES; cens gives the
\* solver's answer pattern for mpc_C, mpc_D and mpc_E
calcular_acoes(ctl, estados, referencias, cens) ==
    acoes_dict(ctl,
        PID_calcular_controle(ctl.pid_A, estados["hA"], ctl.Ts),
        PID_calcular_controle(ctl.pid_B, estados["hB"], ctl.Ts),
        MPC_calcular_controle(ctl.mpc_C, <<estados["hC"], estados["CC"]>>,
            <<referencias["hC_ref"], referencias["CC_ref"]>>,
            RespostaDoCenario(ctl.mpc_C, cens[1])),
        MPC_calcular_controle(ctl.mpc_D, <<estados["hD"], estados["CD"]>>,
            <<referencias["hD_ref"], referencias["CD_ref"]>>,
            RespostaDoCenario(ctl.mpc_D, cens[2])),
        MPC_calcular_controle(ctl.mpc_E, <<estados["hE"], estados["CE"]>>,
            <<referencias["hE_ref"], referencias["CE_ref"]>>,
            RespostaDoCenario(ctl.mpc_E, cens[3])))

----------------------------------------------------------------------------
(* realtime_service.py : RealTimeService *)

EmptyDict == << >>

CHAVES_ESTADO ==
    <<"tank_a_level", "tank_b_level", "tank_c_level", "tank_c_concentration",
      "tank_d_level", "tank_d_concentration", "tank_e_level", "tank_e_concentration">>

CHAVES_CONTROLE ==
    <<"tank_a_supply_valve", "tank_b_supply_valve",
      "tank_c_water_pump", "tank_c_brine_pump", "tank_c_outlet_valve",
      "tank_d_water_pump", "tank_d_brine_pump", "tank_d_outlet_valve",
      "tank_e_water_pump", "tank_e_brine_pump", "tank_e_outlet_valve">>

estado_inicial ==
    <<PONTO_OPERACAO.hA_eq, PONTO_OPERACAO.hB_eq,
      PONTO_OPERACAO.h_eq, PONTO_OPERACAO.C_eq,
      PONTO_OPERACAO.h_eq, PONTO_OPERACAO.C_eq,
      PONTO_OPERACAO.h_eq, PONTO_OPERACAO.C_eq>>

controles_iniciais ==
    <<PONTO_OPERACAO.uA_eq, PONTO_OPERACAO.uB_eq,
      PONTO_OPERACAO.u1_eq, PONTO_OPERACAO.u2_eq, PONTO_OPERACAO.u3_eq,
      PONTO_OPERACAO.u1_eq, PONTO_OPERACAO.u2_eq, PONTO_OPERACAO.u3_eq,
      PONTO_OPERACAO.u1_eq, PONTO_OPERACAO.u2_eq, PONTO_OPERACAO.u3_eq>>

\* the service as constructed at time t; modelo and controladores are the
\* variables of those names
SAMPLING_PADRAO == 5

RealTimeService(t) ==
    [is_running |-> FALSE, is_paused |-> FALSE, session_id |-> None,
     sampling_interval |-> SAMPLING_PADRAO,
     control_interval |-> TS_CONTROLADOR,
     integration_step |-> DT_INTEGRACAO,
     current_state |-> EmptyDict, setpoints |-> EmptyDict,
     control_actions |-> EmptyDict,
     last_update_time |-> t, last_control_time |-> t]

\* mutant: the setpoint map of the previous session is kept
initialize_sem_setpoints(svc, sampling_interval, uuid, t) ==
    [svc |-> [svc EXCEPT !.session_id = uuid,
                         !.sampling_interval = sampling_interval,
                         !.current_state = ZipDict(CHAVES_ESTADO, estado_inicial),
                         !.setpoints = IF @ = EmptyDict
                                       THEN ZipDict(CHAVES_ESTADO, estado_inicial) ELSE @,
                         !.control_actions = ZipDict(CHAVES_CONTROLE, controles_iniciais),
                         !.is_running = TRUE,
                         !.is_paused = FALSE,
                         !.last_update_time = t,
                         !.last_control_time = t],
     modelo |-> definir_estado(SistemaCompleto, Vec(estado_inicial)).m,
     controladores |-> SistemaControle(svc.control_interval),
     ret |-> uuid]

\* [svc, modelo, controladores, ret]
initialize(svc, sampling_interval, uuid, t) ==
    [svc |-> [svc EXCEPT !.session_id = uuid,
                         !.sampling_interval = sampling_interval,
                         !.current_state = ZipDict(CHAVES_ESTADO, estado_inicial),
                         !.setpoints = ZipDict(CHAVES_ESTADO, estado_inicial),
                         !.control_actions = ZipDict(CHAVES_CONTROLE, controles_iniciais),
                         !.is_running = TRUE,
                         !.is_paused = FALSE,
                         !.last_update_time = t,
                         !.last_control_time = t],
     modelo |-> definir_estado(SistemaCompleto, Vec(estado_inicial)).m,
     controladores |-> SistemaControle(svc.control_interval),
     ret |-> uuid]

\* [svc, modelo, controladores]
\* _execute_mpc_step: the dictionary of references built from the setpoints
montar_referencias(svc) ==
    [hC_ref |-> svc.setpoints["tank_c_level"],
     CC_ref |-> svc.setpoints["tank_c_concentration"],
     hD_ref |-> svc.setpoints["tank_d_level"],
     CD_ref |-> svc.setpoints["tank_d_concentration"],
     hE_ref |-> svc.setpoints["tank_e_level"],
     CE_ref |-> svc.setpoints["tank_e_concentration"]]

\* _execute_mpc_step: control_actions rebuilt from the actions r of calcular_acoes
atualizar_control_actions(svc, o, r) ==
    [svc |-> [svc EXCEPT !.control_actions = ZipDict(CHAVES_CONTROLE, r.acoes)],
     modelo |-> o.m, controladores |-> r.ctl]

\* _execute_mpc_step from the state o that obter_estado returned
executar_mpc(svc, ctl, o, cens) ==
    atualizar_control_actions(svc, o,
        calcular_acoes(ctl, ZipDict(ORDEM_ESTADOS, o.ret), montar_referencias(svc), cens))

execute_mpc_step(svc, m, ctl, cens) ==
    IF m = NoModel \/ ctl = NoControl
    THEN [svc |-> svc, modelo |-> m, controladores |-> ctl]
    ELSE executar_mpc(svc, ctl, obter_estado(m), cens)

\* mutant: the physics is advanced with the equilibrium actuators
integrate_physics_step_equilibrio(svc, m, dt) ==
    IF m = NoModel THEN m
    ELSE integrar_passo(m, Vec(controles_iniciais), Decimos(dt), "euler").m

\* the model after _integrate_physics_step(dt)
integrate_physics_step(svc, m, dt) ==
    IF m = NoModel THEN m
    ELSE LET u == [i \in 1..Len(CHAVES_CONTROLE) |-> svc.control_actions[CHAVES_CONTROLE[i]]]
         IN  integrar_passo(m, Vec(u), Decimos(dt), "euler").m

\* [svc, modelo]
current_state_de(svc, o) ==
    [svc |-> [svc EXCEPT !.current_state = ZipDict(CHAVES_ESTADO, o.ret)],
     modelo |-> o.m]

update_state_from_model(svc, m) ==
    IF m = NoModel THEN [svc |-> svc, modelo |-> m]
    ELSE current_state_de(svc, obter_estado(m))

\* run_realtime_loop, step 1: the controllers run when the control interval
\* has elapsed, and last_control_time is rebased: [svc, modelo, controladores]
passo_controle(svc, m, ctl, current_time, cens) ==
    IF (current_time - svc.last_control_time) >= svc.control_interval
    THEN [execute_mpc_step(svc, m, ctl, cens) EXCEPT
             !.svc.last_control_time = current_time]
    ELSE [svc |-> svc, modelo |-> m, controladores |-> ctl]

\* run_realtime_loop, step 2: the physics advances by dt when dt reaches the
\* integration step, and last_update_time is rebased
integrar_se_vencido(s, current_time, dt) ==
    IF dt >= s.svc.integration_step
    THEN [svc |-> [s.svc EXCEPT !.last_update_time = current_time],
          modelo |-> integrate_physics_step(s.svc, s.modelo, dt),
          controladores |-> s.controladores]
    ELSE s

passo_fisica(s, current_time) ==
    integrar_se_vencido(s, current_time, current_time - s.svc.last_update_time)

com_controladores(u, ctl) ==
    [svc |-> u.svc, modelo |-> u.modelo, controladores |-> ctl]

\* run_realtime_loop, step 3: current_state is refreshed from the model
passo_estado(s) ==
    com_controladores(update_state_from_model(s.svc, s.modelo), s.controladores)

\* the synchronous part of one non-paused loop iteration, up to the send:
\* [svc, modelo, controladores]
iteracao(svc, m, ctl, current_time, cens) ==
    passo_estado(
        passo_fisica(passo_controle(svc, m, ctl, current_time, cens), current_time))

\* run_realtime_loop: "if not self.is_paused", the test that guards the body
corpo_ativo_sempre(svc) == TRUE

corpo_ativo(svc) == ~svc.is_paused

\* mutant: a key that is absent from the map is added to it
update_setpoint_cria_chave(svc, command) ==
    LET key == command.tank_id \o "_" \o command.variable
    IN  [svc EXCEPT !.setpoints =
            [k \in DOMAIN svc.setpoints \cup {key} |->
                IF k = key THEN command.value ELSE svc.setpoints[k]]]

\* the service after update_setpoint(command)
update_setpoint(svc, command) ==
    LET key == command.tank_id \o "_" \o command.variable
    IN  IF key \in DOMAIN svc.setpoints
        THEN [svc EXCEPT !.setpoints[key] = command.value]
        ELSE svc

pause(svc) == [svc EXCEPT !.is_paused = TRUE]

\* mutant: the timestamps are left where they were
resume_sem_rebase(svc, t) == [svc EXCEPT !.is_paused = FALSE]

resume(svc, t) ==
    [svc EXCEPT !.is_paused = FALSE, !.last_update_time = t, !.last_control_time = t]

\* mutant: the setpoints are copied from the actuator map
setpoints_de_control_actions(u) ==
    [svc |-> [u.svc EXCEPT !.setpoints = u.svc.control_actions], modelo |-> u.modelo]

\* reset: "self.setpoints = self.current_state.copy()"
setpoints_de_current_state(u) ==
    [svc |-> [u.svc EXCEPT !.setpoints = u.svc.current_state], modelo |-> u.modelo]

\* mutant: the session is also taken out of its pause
reset_retoma(svc, m, ctl) ==
    IF m # NoModel /\ ctl # NoControl
    THEN setpoints_de_current_state(
             update_state_from_model([svc EXCEPT !.is_paused = FALSE],
                                     definir_estado(m, Vec(estado_inicial)).m))
    ELSE [svc |-> svc, modelo |-> m]

\* [svc, modelo]
reset(svc, m, ctl) ==
    IF m # NoModel /\ ctl # NoControl
    THEN setpoints_de_current_state(
             update_state_from_model(svc, definir_estado(m, Vec(estado_inicial)).m))
    ELSE [svc |-> svc, modelo |-> m]

\* mutant: the running flag is left as it was
shutdown_sem_efeito(svc) == svc

shutdown(svc) == [svc EXCEPT !.is_running = FALSE]

----------------------------------------------------------------------------
(* Calls on the physics model with arguments drawn from small sets *)

MaxOps == 2

U_ENCHER == <<U_ONE, U_ONE, U_ONE, U_ONE, 0, U_ONE, U_ONE, 0, 0, U_ONE, 0>>

U_ESVAZIAR == <<0, 0, 0, 0, U_ONE, 0, 0, U_ONE, U_ONE, 0, U_ONE>>

U_FORA == <<150000, -5000, 150000, -5000, 150000, -5000, 150000, -5000, 0, 0, 0>>

ControleInputs ==
    {Vec(U_ENCHER), Vec(U_ESVAZIAR), Vec(U_FORA),
     Vec(SubSeq(U_ENCHER, 1, 10)),
     Dict([uC1 |-> U_ONE, uC3 |-> 0, uX |-> 7]),
     None}

\* <<dt, metodo>>
PassoInputs ==
    {<<Decimos(12), "rk4">>, <<Decimos(50), "euler">>, <<Decimos(50), "RK4">>,
     <<Decimos(12), "heun">>, <<Decimos(-5), "rk4">>, <<Decimos(-5), "heun">>,
     <<Decimos(0), NoMetodo>>,
     <<Duracao(DT_INTEGRACAO, 5), "rk4">>, <<Duracao(0, 5), "euler">>}

EstadoInputs ==
    {Vec(ESTADO_OPERACIONAL_VETOR),
     Vec(<<-10, 310, 0, -50, 300, 4000, 1, 3600>>),
     Vec(<<300, 0, 299, 20, 2, 1800, 300, 0>>),
     Vec(SubSeq(ESTADO_OPERACIONAL_VETOR, 1, 7)),
     Vec(ESTADO_OPERACIONAL_VETOR \o <<0>>),
     Dict([hC |-> 20, CE |-> 5000, hX |-> 1]),
     None}

NoCall ==
    [op |-> "none", raised |-> FALSE, ret |-> << >>, pre |-> NoModel,
     estado |-> None, controles |-> None, dt |-> Decimos(0), metodo |-> NoMetodo,
     chamadas |-> << >>]

DefinirEstado ==
    /\ modelo # NoModel
    /\ nops < MaxOps
    /\ \E estado \in EstadoInputs :
          \E r \in {definir_estado(modelo, estado)} :
          /\ modelo' = r.m
          /\ last' = [NoCall EXCEPT !.op = "definir_estado", !.raised = r.raised,
                                    !.pre = modelo, !.estado = estado]
    /\ nops' = nops + 1
    /\ UNCHANGED <<mpcVars, svcVars>>

IntegrarPasso ==
    /\ modelo # NoModel
    /\ nops < MaxOps
    /\ \E controles \in ControleInputs, p \in PassoInputs :
          \E dt \in {p[1]}, metodo \in {p[2]} :
          \E r \in {integrar_passo(modelo, controles, dt, metodo)} :
          /\ modelo' = r.m
          /\ last' = [NoCall EXCEPT !.op = "integrar_passo", !.raised = r.raised,
                                    !.ret = r.ret, !.pre = modelo,
                                    !.controles = controles, !.dt = dt,
                                    !.metodo = metodo, !.chamadas = r.chamadas]
    /\ nops' = nops + 1
    /\ UNCHANGED <<mpcVars, svcVars>>

ObterEstado ==
    /\ modelo # NoModel
    /\ nops < MaxOps
    /\ \E r \in {obter_estado(modelo)} :
          /\ modelo' = r.m
          /\ last' = [NoCall EXCEPT !.op = "obter_estado", !.ret = r.ret, !.pre = modelo]
    /\ nops' = nops + 1
    /\ UNCHANGED <<mpcVars, svcVars>>

\* the websockets a client may open against the endpoint
UmSocket == {"ws1"}

DoisSockets == {"ws1", "ws2"}

\* the websockets of the run
Conns == DOMAIN conns

\* listener: the receive loop of the endpoint; loop: where the task running
\* run_realtime_loop is; wake: when its sleep ends; saltou: whether the pass
\* that led to that sleep found the session paused
NoConn ==
    [listener |-> "none", data |-> "none", loop |-> "none", wake |-> 0,
     saltou |-> FALSE, current_time |-> 0]

\* the service as main.py builds it at start-up, before any request
InitService ==
    /\ realtime_service = RealTimeService(0)
    /\ now = 0
    /\ lifespan = "up"
    /\ conns = [c \in UmSocket |-> NoConn]
    /\ emitidos = << >>
    /\ gasto = [cmds |-> 0, ticks |-> 0]
    /\ pausa = [inicio |-> -1, fim |-> -1]

NoMpcCall ==
    [op |-> "none", raised |-> FALSE, ret |-> << >>, caminho |-> "none",
     pre |-> ControladorMPC("C"), aplicado_antes |-> u_eq, aplicado |-> u_eq,
     x_medido |-> x_eq, referencia |-> x_eq, sol |-> << >>, solves |-> << >>,
     problemas |-> << >>]

InitModel ==
    /\ modelo = SistemaCompleto
    /\ last = NoCall
    /\ nops = 0
    /\ controladores = NoControl
    /\ lastMpc = NoMpcCall
    /\ InitService

NextModel == DefinirEstado \/ IntegrarPasso \/ ObterEstado

SpecModel == InitModel /\ [][NextModel]_vars

----------------------------------------------------------------------------
(* Claims about the physics model, checked under SpecModel *)

NivelOk(t) == 0 <= t.nivel /\ t.nivel <= t.altura_max

ConcentracaoOk(t) == 0 <= t.concentracao /\ t.concentracao <= CB

\* C1: after any sequence of definir_estado and integrar_passo calls every
\* one of the five levels lies in [0, altura_max] and every process-tank
\* concentration lies in [0, CB].
C1_LimitesFisicos ==
    modelo # NoModel =>
        /\ NivelOk(modelo.tanque_A) /\ NivelOk(modelo.tanque_B)
        /\ \A t \in {modelo.tanque_C, modelo.tanque_D, modelo.tanque_E} :
              NivelOk(t) /\ ConcentracaoOk(t)

\* a single-step advance in which the RK4 result of some process tank left
\* the physical range before the saturation brought it back
C1_Witness ==
    /\ last.op = "integrar_passo" /\ ~last.raised
    /\ DMaior(last.dt, Decimos(0)) /\ lower(last.metodo) = "euler"
    /\ LET cd == converter_controles_para_dict(last.pre, last.controles).dict
           tC == set_controles(last.pre.tanque_C, cd["uC1"], cd["uC2"], cd["uC3"])
           tD == set_controles(last.pre.tanque_D, cd["uD1"], cd["uD2"], cd["uD3"])
           tE == set_controles(last.pre.tanque_E, cd["uE1"], cd["uE2"], cd["uE3"])
       IN  \E t \in {tC, tD, tE} :
              LET n == Tronco_atualizar_unclipped(t, last.dt.ds)
              IN  ~(NivelOk(n) /\ ConcentracaoOk(n))
    /\ C1_LimitesFisicos

VetorMalDimensionado(controles) ==
    controles.kind = "vec" /\ Len(controles.val) # 11

MetodoDesconhecido(metodo) == lower(metodo) \notin {"rk4", "euler"}

C6_SemMutacaoParcial == last.raised => modelo = last.pre

\* clamp of the claim: levels to [0, altura_max], concentrations to [C_min, CB]
ClampEstado(v) ==
    <<clip(v[1], 0, ALTURA_MAXIMA), clip(v[2], 0, ALTURA_MAXIMA),
      clip(v[3], 0, ALTURA_MAXIMA), clip(v[4], C_min, CB),
      clip(v[5], 0, ALTURA_MAXIMA), clip(v[6], C_min, CB),
      clip(v[7], 0, ALTURA_MAXIMA), clip(v[8], C_min, CB)>>

\* C7: for any 8-vector v, definir_estado(v) followed by obter_estado()
\* returns clamp(v) in the order hA, hB, hC, CC, hD, CD, hE, CE.
C7_RoundTrip ==
    (last.op = "definir_estado" /\ last.estado.kind = "vec"
        /\ Len(last.estado.val) = 8)
    => /\ ~last.raised
       /\ obter_estado(modelo).ret = ClampEstado(last.estado.val)

C7_Witness ==
    /\ last.op = "definir_estado" /\ last.estado.kind = "vec"
    /\ Len(last.estado.val) = 8
    /\ ClampEstado(last.estado.val) # last.estado.val
    /\ obter_estado(modelo).ret # last.estado.val

\* an integrar_passo call with dt > 0 that went through the loop
IntegracaoFeita ==
    last.op = "integrar_passo" /\ ~last.raised /\ DMaior(last.dt, Decimos(0))

\* the step sizes of the updates of the last call, first to last
PassosFeitos == [i \in DOMAIN last.chamadas |-> last.chamadas[i].passo]

RECURSIVE Soma(_)
Soma(ps) == IF ps = << >> THEN Decimos(0) ELSE DAdd(Head(ps), Soma(Tail(ps)))

\* ceil(d / DT_INTEGRACAO) for d >= 0
Teto(d) ==
    IF d.ds % DT_INTEGRACAO = 0 /\ d.sub = 0 THEN d.ds \div DT_INTEGRACAO
    ELSE d.ds \div DT_INTEGRACAO + 1

MesmosControles ==
    \A i \in DOMAIN last.chamadas :
        last.chamadas[i].controles
          = converter_controles_para_dict(last.pre, last.controles).dict

----------------------------------------------------------------------------
(* Calls on one ControladorMPC with measurements, references and solver     *)
(* answers drawn from small sets                                             *)

MaxCalls == 3

MedidoInputs == {x_eq, <<160, 1900>>}

ReferenciaInputs == {x_eq, <<170, 2000>>, <<140, 2000>>, <<170, 2000, 0>>}

CalcularControle ==
    /\ controladores # NoControl
    /\ nops < MaxCalls
    /\ \E x_medido \in MedidoInputs, referencia \in ReferenciaInputs :
       \E sol \in SolverRespostas(controladores.mpc_C) :
       \E r \in {MPC_calcular_controle(controladores.mpc_C, x_medido, referencia, sol)} :
          /\ controladores' = [controladores EXCEPT !.mpc_C = r.c]
          /\ lastMpc' = [op |-> "calcular_controle", raised |-> r.raised,
                         ret |-> r.ret, caminho |-> r.caminho,
                         pre |-> controladores.mpc_C,
                         aplicado_antes |-> lastMpc.aplicado,
                         aplicado |-> IF r.raised THEN lastMpc.aplicado ELSE r.ret,
                         x_medido |-> x_medido, referencia |-> referencia,
                         sol |-> sol, solves |-> r.solves,
                         problemas |-> r.problemas]
    /\ nops' = nops + 1
    /\ UNCHANGED <<physVars, svcVars>>

InitMPC ==
    /\ modelo = NoModel
    /\ last = NoCall
    /\ nops = 0
    /\ controladores = SistemaControle(TS_CONTROLADOR)
    /\ lastMpc = NoMpcCall
    /\ InitService

NextMPC == CalcularControle

SpecMPC == InitMPC /\ [][NextMPC]_vars

----------------------------------------------------------------------------
(* Claims about ControladorMPC.calcular_controle, checked under SpecMPC *)

\* C2: the vector returned by a call differs component-wise from the
\* previously applied vector (the one returned by the preceding call, or the
\* equilibrium actuators for the first call) by no more than delta_u_max,
\* whatever path the call took; the solver's feasibility tolerance on the
\* two solves involved is granted to the claim.
C2_LimiteDeVariacao ==
    (lastMpc.op = "calcular_controle" /\ ~lastMpc.raised) =>
        \A i \in 1..3 :
            Abs(lastMpc.ret[i] - lastMpc.aplicado_antes[i])
                <= delta_u_max[i] + 2 * SolverTol

\* a solve that succeeds right after a conservative blend: the blend was
\* applied but never stored, so the rate limit was anchored elsewhere
C2_Witness ==
    /\ lastMpc.op = "calcular_controle" /\ lastMpc.caminho = "completo"
    /\ lastMpc.aplicado_antes # lastMpc.pre.u_anterior
    /\ \E i \in 1..3 :
          Abs(lastMpc.aplicado_antes[i] - lastMpc.pre.u_anterior[i]) > SolverTol

\* C3: on every path (full-horizon success, reduced-horizon success,
\* conservative blend, caught exception) the returned vector u satisfies
\* u_min <= u <= u_max component-wise.
C3_DentroDosLimites ==
    (lastMpc.op = "calcular_controle" /\ ~lastMpc.raised) =>
        \A i \in 1..3 : u_min[i] <= lastMpc.ret[i] /\ lastMpc.ret[i] <= u_max[i]

\* C4: calcular_controle never raises to its caller; when an exception is
\* thrown during construction or solve, it returns the stored previous
\* action and leaves erro_integral and u_anterior unmodified.
C4_NuncaLevanta ==
    lastMpc.op = "calcular_controle" =>
        /\ ~lastMpc.raised
        /\ lastMpc.caminho = "excecao" =>
              /\ lastMpc.ret = lastMpc.pre.u_anterior
              /\ controladores.mpc_C = lastMpc.pre

\* the part of C4 the code does keep: an exception raised by the solve
C4_Witness ==
    /\ lastMpc.op = "calcular_controle" /\ lastMpc.caminho = "excecao"
    /\ lastMpc.ret = lastMpc.pre.u_anterior
    /\ controladores.mpc_C = lastMpc.pre
    /\ lastMpc.pre.u_anterior # u_eq

\* a call that returned to its caller
Retornou == lastMpc.op = "calcular_controle" /\ ~lastMpc.raised

\* C21: the ladder is followed in order: an accepted full-horizon status is
\* returned with no fallback attempted; the reduced-horizon problem is solved
\* only after the full-horizon solve reported a status that is not accepted;
\* the blend is returned only after the reduced-horizon solve also reported
\* such a status or raised; an accepted reduced-horizon solve stores its
\* first move as the previous action.
C21_Escada ==
    Retornou =>
        /\ lastMpc.sol.status \in StatusAceito =>
              lastMpc.caminho = "completo" /\ lastMpc.solves = <<"completo">>
        /\ lastMpc.solves \in {<<"completo">>, <<"completo", "reduzido">>}
        /\ Len(lastMpc.solves) = 2 =>
              lastMpc.sol.status \notin StatusAceito \cup {"raise"}
        /\ lastMpc.caminho = "conservador" =>
              /\ Len(lastMpc.solves) = 2
              /\ lastMpc.sol.status_r \notin StatusAceito
        /\ lastMpc.caminho = "reduzido" =>
              /\ Len(lastMpc.solves) = 2
              /\ lastMpc.sol.status_r \in StatusAceito
              /\ controladores.mpc_C.u_anterior = VAdd(lastMpc.sol.u_r, u_eq)
              /\ controladores.mpc_C.erro_integral = lastMpc.pre.erro_integral

\* a reduced-horizon solve succeeded and moved the previous-action memory
C21_Witness ==
    /\ Retornou
    /\ lastMpc.caminho = "reduzido"
    /\ controladores.mpc_C.u_anterior # lastMpc.pre.u_anterior

\* C24: on an accepted full-horizon solve the call returns the first move of
\* the optimal sequence plus the equilibrium offset, advances the integral
\* accumulator once by the measured tracking error, and stores as previous
\* action the vector it returned.
C24_Sucesso ==
    (Retornou /\ lastMpc.caminho = "completo") =>
        /\ lastMpc.ret = VClip(VAdd(lastMpc.sol.u, u_eq), u_min, u_max)
        /\ controladores.mpc_C.erro_integral =
              VAdd(lastMpc.pre.erro_integral,
                   VSub(Desvio(lastMpc.x_medido), Desvio(lastMpc.referencia)))
        /\ controladores.mpc_C.u_anterior = lastMpc.ret

\* C25: when both solves fail the call returns
\* clip(f * u_anterior + (1 - f) * u_eq, u_min, u_max) with f = 0.9 and
\* leaves the integral accumulator as it was.
C25_Conservador ==
    (Retornou /\ lastMpc.caminho = "conservador") =>
        /\ \A i \in 1..3 :
              lastMpc.ret[i] =
                  clip((9 * lastMpc.pre.u_anterior[i] + u_eq[i]) \div 10,
                       u_min[i], u_max[i])
        /\ controladores.mpc_C.erro_integral = lastMpc.pre.erro_integral

\* a blend taken away from equilibrium, with a tracking error and a non-zero
\* accumulator
C25_Witness ==
    /\ Retornou
    /\ lastMpc.caminho = "conservador"
    /\ lastMpc.pre.u_anterior # u_eq
    /\ lastMpc.ret # lastMpc.pre.u_anterior
    /\ lastMpc.pre.erro_integral # <<0, 0>>
    /\ Desvio(lastMpc.x_medido) # Desvio(lastMpc.referencia)

\* C26: after every call that returns, on every path, u_anterior equals the
\* vector that the call returned.
C26_MemoriaIgualAoRetorno ==
    Retornou => controladores.mpc_C.u_anterior = lastMpc.ret

\* the families of constraints of a problem
familias(problema) == {r.familia : r \in problema.restricoes}

\* C22: whenever the reduced-horizon retry is posed, it is the full-horizon
\* problem of the same call (same cost terms, same constraints, the
\* overshoot and undershoot ceilings and floors included) with only the
\* horizons replaced by max(10, Np div 2) and max(5, Nc div 2).
C22_FormulacaoIdentica ==
    (lastMpc.op = "calcular_controle" /\ Len(lastMpc.problemas) = 2)
    => lastMpc.problemas[2] =
         [lastMpc.problemas[1] EXCEPT !.Np = Max(10, Np \div 2),
                                      !.Nc = Max(5, Nc \div 2)]

\* C23: in every problem posed, the level ceiling is present exactly when the
\* level reference deviation is positive and the level floor exactly when it
\* is negative, the same for concentration, and no axis has both a ceiling
\* and a floor.
C23_PorEixo ==
    (lastMpc.op = "calcular_controle" /\ Len(lastMpc.problemas) >= 1)
    => \E r_dev \in {Desvio(lastMpc.referencia)} :
       \E f \in {familias(lastMpc.problemas[1])} :
          /\ ("teto_nivel" \in f) <=> (r_dev[1] > 0)
          /\ ("piso_nivel" \in f) <=> (r_dev[1] < 0)
          /\ ("teto_concentracao" \in f) <=> (r_dev[2] > 0)
          /\ ("piso_concentracao" \in f) <=> (r_dev[2] < 0)
          /\ ~("teto_nivel" \in f /\ "piso_nivel" \in f)
          /\ ~("teto_concentracao" \in f /\ "piso_concentracao" \in f)

----------------------------------------------------------------------------
(* Calls on one ControladorPID with measured levels drawn from a small set;  *)
(* the number of calls is not bounded                                        *)

NivelInputs == {0, 140, 150, 160, 300}

PidCalcularControle ==
    /\ controladores # NoControl
    /\ \E nivel_medido \in NivelInputs :
       \E r \in {PID_calcular_controle(controladores.pid_A, nivel_medido,
                                        controladores.Ts)} :
          /\ controladores' = [controladores EXCEPT !.pid_A = r.p]
          /\ lastMpc' = [op |-> "pid_calcular_controle", ret |-> r.ret,
                         pre |-> controladores.pid_A,
                         nivel_medido |-> nivel_medido, Ts |-> controladores.Ts]
    /\ UNCHANGED <<physVars, nops, svcVars>>

NextPID == PidCalcularControle

SpecPID == InitMPC /\ [][NextPID]_vars

\* C27: after any sequence of calls the accumulator of the PI controller is
\* within the anti-windup range [-10, 10] and the value returned by every call
\* is within [0, 1].
C27_PID ==
    /\ controladores.pid_A.erro_integral >= -ANTI_WINDUP
    /\ controladores.pid_A.erro_integral <= ANTI_WINDUP
    /\ lastMpc.op = "pid_calcular_controle"
       => (lastMpc.ret >= 0 /\ lastMpc.ret <= U_ONE)

\* a call whose accumulation left the range and whose P + I exceeded 1: the
\* accumulator stands at the upper end and the output at 1
C27_Witness ==
    /\ lastMpc.op = "pid_calcular_controle"
    /\ lastMpc.pre.erro_integral
         + (lastMpc.pre.setpoint - lastMpc.nivel_medido) * lastMpc.Ts > ANTI_WINDUP
    /\ controladores.pid_A.erro_integral = ANTI_WINDUP
    /\ lastMpc.pre.Kp * (lastMpc.pre.setpoint - lastMpc.nivel_medido) * 1000
         + lastMpc.pre.Ki * ANTI_WINDUP > U_ONE
    /\ lastMpc.ret = U_ONE

----------------------------------------------------------------------------
(* main.py and realtime_service.py : the running application.  Handlers run *)
(* on one asyncio event loop, so each runs to its next await without        *)
(* interleaving; the loop task yields at send_json and at sleep.            *)

MaxInit == 2

MaxCmds == 2

MaxTicks == 2

TickSizes == {DT_INTEGRACAO, TS_CONTROLADOR}

SamplingInputs == {2 * DT_INTEGRACAO}

SetpointInputs ==
    {[tank_id |-> "tank_c", variable |-> "level", value |-> 170],
     [tank_id |-> "tank_a", variable |-> "level", value |-> 120],
     [tank_id |-> "tank_x", variable |-> "level", value |-> 170]}

\* solver answer patterns offered to the three MPCs of one control cycle
CiclosServico ==
    {<<c, c, c>> : c \in
        {SolverCenario("optimal_inaccurate", <<1, 1, 1>>, SolverTol, "none"),
         SolverCenario("infeasible", <<-1, -1, -1>>, 0, "optimal"),
         SolverCenario("infeasible", <<0, 0, 0>>, 0, "infeasible"),
         SolverCenario("raise", <<0, 0, 0>>, 0, "none")}}
    \cup {<<SolverCenario("optimal", <<0, 0, 0>>, 0, "none"),
            SolverCenario("infeasible", <<0, 0, 0>>, 0, "infeasible"),
            SolverCenario("raise", <<0, 0, 0>>, 0, "none")>>}

\* placeholder for the solver answers of a pass in which no control cycle runs
SemCiclo == <<SolverCenario("raise", <<0, 0, 0>>, 0, "none")>>

\* str(uuid.uuid4()): an identifier that no earlier call returned
uuid4 == Len(emitidos) + 1

directVars == <<last, nops, lastMpc>>

obsVars == <<pausa, directVars>>

\* positions of run_realtime_loop inside the body of a pass, between the read
\* of the clock and the await of send_json: the task holds the event loop
PosicoesSincronas == {"fisica", "estado"}

EventLoopLivre_sempre == TRUE

\* asyncio runs one task at a time and switches only at an await: another
\* task or handler runs only while every loop task is suspended
EventLoopLivre == \A c \in Conns : conns[c].loop \notin PosicoesSincronas

\* POST /simulation/initialize
Initialize ==
    /\ EventLoopLivre
    /\ lifespan = "up"
    /\ Len(emitidos) < MaxInit
    /\ \E sampling_interval \in SamplingInputs :
       \E r \in {initialize(realtime_service, sampling_interval, uuid4, now)} :
          /\ realtime_service' = r.svc
          /\ modelo' = r.modelo
          /\ controladores' = r.controladores
          /\ emitidos' = Append(emitidos, r.ret)
    /\ UNCHANGED <<now, lifespan, conns, gasto, obsVars>>

\* websocket_realtime_endpoint up to create_task; the initial send may raise
Connect(c) ==
    /\ EventLoopLivre
    /\ lifespan = "up"
    /\ conns[c].listener = "none"
    /\ \E enviado \in BOOLEAN :
          conns' = [conns EXCEPT ![c] =
                       IF enviado
                       THEN [NoConn EXCEPT !.listener = "open", !.loop = "start"]
                       ELSE [NoConn EXCEPT !.listener = "closed"]]
    /\ UNCHANGED <<realtime_service, modelo, controladores, now, lifespan, emitidos,
                   gasto, obsVars>>

\* receive_json returns a message of the given type on an open connection
Recebe(c, type) ==
    /\ EventLoopLivre
    /\ lifespan = "up"
    /\ conns[c].listener = "open"
    /\ gasto.cmds < MaxCmds
    /\ gasto' = [gasto EXCEPT !.cmds = @ + 1]
    /\ conns' = [conns EXCEPT ![c].data = type]

CmdSetpoint(c, command) ==
    /\ Recebe(c, "setpoint")
    /\ realtime_service' = update_setpoint(realtime_service, command)
    /\ UNCHANGED <<modelo, controladores, now, lifespan, emitidos, obsVars>>

CmdPause(c) ==
    /\ Recebe(c, "pause")
    /\ realtime_service' = pause(realtime_service)
    /\ pausa' = IF realtime_service.is_paused THEN pausa
                ELSE [pausa EXCEPT !.inicio = now]
    /\ UNCHANGED <<modelo, controladores, now, lifespan, emitidos, directVars>>

CmdResume(c) ==
    /\ Recebe(c, "resume")
    /\ realtime_service' = resume(realtime_service, now)
    /\ pausa' = [pausa EXCEPT !.fim = now]
    /\ UNCHANGED <<modelo, controladores, now, lifespan, emitidos, directVars>>

CmdReset(c) ==
    /\ Recebe(c, "reset")
    /\ \E r \in {reset(realtime_service, modelo, controladores)} :
          /\ realtime_service' = r.svc
          /\ modelo' = r.modelo
    /\ UNCHANGED <<controladores, now, lifespan, emitidos, obsVars>>

\* receive_json raises WebSocketDisconnect: the loop task is cancelled
ListenerDisconnect(c) ==
    /\ EventLoopLivre
    /\ conns[c].listener = "open"
    /\ conns' = [conns EXCEPT ![c].listener = "closed",
                              ![c].loop = IF @ \in {"start", "sending", "sleeping"}
                                          THEN "done" ELSE @]
    /\ UNCHANGED <<realtime_service, modelo, controladores, now, lifespan, emitidos,
                   gasto, obsVars>>

\* any other exception in the listener: the loop task is left running
ListenerErro(c) ==
    /\ EventLoopLivre
    /\ conns[c].listener = "open"
    /\ conns' = [conns EXCEPT ![c].listener = "closed"]
    /\ UNCHANGED <<realtime_service, modelo, controladores, now, lifespan, emitidos,
                   gasto, obsVars>>

\* lifespan shutdown hook
Shutdown ==
    /\ EventLoopLivre
    /\ lifespan = "up"
    /\ lifespan' = "down"
    /\ realtime_service' = shutdown(realtime_service)
    /\ UNCHANGED <<modelo, controladores, now, conns, emitidos, gasto, obsVars>>

\* the loop task is scheduled: first entry, or its sleep is over
LoopPronto(c) ==
    /\ EventLoopLivre
    /\ \/ conns[c].loop = "start"
       \/ conns[c].loop = "sleeping" /\ now >= conns[c].wake

\* run_realtime_loop: the while test fails
LoopSai(c) ==
    /\ LoopPronto(c)
    /\ ~realtime_service.is_running
    /\ conns' = [conns EXCEPT ![c].loop = "done"]
    /\ UNCHANGED <<realtime_service, modelo, controladores, now, lifespan, emitidos,
                   gasto, obsVars>>

\* run_realtime_loop: a pass that finds the session paused goes to sleep
LoopPausado(c) ==
    /\ LoopPronto(c)
    /\ realtime_service.is_running
    /\ ~corpo_ativo(realtime_service)
    /\ conns' = [conns EXCEPT ![c].loop = "sleeping",
                              ![c].wake = now + realtime_service.sampling_interval,
                              ![c].saltou = TRUE]
    /\ UNCHANGED <<realtime_service, modelo, controladores, now, lifespan, emitidos,
                   gasto, obsVars>>

ControleVencido ==
    (now - realtime_service.last_control_time) >= realtime_service.control_interval

\* run_realtime_loop, lines 150-158: the while test and the pause test pass,
\* the clock is read and the control cycle runs if it is due
LoopControle(c) ==
    /\ LoopPronto(c)
    /\ realtime_service.is_running
    /\ corpo_ativo(realtime_service)
    /\ \E cens \in IF ControleVencido THEN CiclosServico ELSE {SemCiclo} :
       \E r \in {passo_controle(realtime_service, modelo, controladores, now, cens)} :
          /\ realtime_service' = r.svc
          /\ modelo' = r.modelo
          /\ controladores' = r.controladores
    /\ conns' = [conns EXCEPT ![c].loop = "fisica", ![c].saltou = FALSE,
                              ![c].current_time = now]
    /\ UNCHANGED <<now, lifespan, emitidos, gasto, obsVars>>

\* run_realtime_loop, lines 161-164: the physics advance, if it is due
LoopFisica(c) ==
    /\ conns[c].loop = "fisica"
    /\ \E r \in {passo_fisica([svc |-> realtime_service, modelo |-> modelo,
                                controladores |-> controladores],
                               conns[c].current_time)} :
          /\ realtime_service' = r.svc
          /\ modelo' = r.modelo
    /\ conns' = [conns EXCEPT ![c].loop = "estado"]
    /\ UNCHANGED <<controladores, now, lifespan, emitidos, gasto, obsVars>>

\* run_realtime_loop, lines 167-179: the snapshot is refreshed, the message is
\* built from it and send_json is awaited
LoopEstado(c) ==
    /\ conns[c].loop = "estado"
    /\ \E r \in {update_state_from_model(realtime_service, modelo)} :
          /\ realtime_service' = r.svc
          /\ modelo' = r.modelo
    /\ conns' = [conns EXCEPT ![c].loop = "sending", ![c].current_time = 0]
    /\ UNCHANGED <<controladores, now, lifespan, emitidos, gasto, obsVars>>

\* send_json returns and the loop goes to sleep, or it raises and the loop ends
LoopEnvio(c) ==
    /\ EventLoopLivre
    /\ conns[c].loop = "sending"
    /\ \E enviado \in BOOLEAN :
          conns' = [conns EXCEPT
                       ![c].loop = IF enviado THEN "sleeping" ELSE "done",
                       ![c].wake = IF enviado
                                   THEN now + realtime_service.sampling_interval
                                   ELSE @]
    /\ UNCHANGED <<realtime_service, modelo, controladores, now, lifespan, emitidos,
                   gasto, obsVars>>

\* time.time() advances; the time taken by the synchronous part of a pass is
\* not represented
Tick ==
    /\ EventLoopLivre
    /\ gasto.ticks < MaxTicks
    /\ \E d \in TickSizes : now' = now + d
    /\ gasto' = [gasto EXCEPT !.ticks = @ + 1]
    /\ UNCHANGED <<realtime_service, modelo, controladores, lifespan, conns, emitidos,
                   obsVars>>

Init ==
    /\ modelo = NoModel
    /\ controladores = NoControl
    /\ last = NoCall
    /\ nops = 0
    /\ lastMpc = NoMpcCall
    /\ InitService

Next ==
    \/ Initialize
    \/ Shutdown
    \/ Tick
    \/ \E c \in Conns :
          \/ Connect(c)
          \/ \E command \in SetpointInputs : CmdSetpoint(c, command)
          \/ CmdPause(c)
          \/ CmdResume(c)
          \/ CmdReset(c)
          \/ ListenerDisconnect(c)
          \/ ListenerErro(c)
          \/ LoopSai(c)
          \/ LoopPausado(c)
          \/ LoopControle(c)
          \/ LoopFisica(c)
          \/ LoopEstado(c)
          \/ LoopEnvio(c)

Spec == Init /\ [][Next]_vars


----------------------------------------------------------------------------
(* Claims about the running application, checked under Spec *)

EquilibrioEstado ==
    [tank_a_level |-> PONTO_OPERACAO.hA_eq, tank_b_level |-> PONTO_OPERACAO.hB_eq,
     tank_c_level |-> PONTO_OPERACAO.h_eq, tank_c_concentration |-> PONTO_OPERACAO.C_eq,
     tank_d_level |-> PONTO_OPERACAO.h_eq, tank_d_concentration |-> PONTO_OPERACAO.C_eq,
     tank_e_level |-> PONTO_OPERACAO.h_eq, tank_e_concentration |-> PONTO_OPERACAO.C_eq]

EquilibrioControle ==
    [tank_a_supply_valve |-> PONTO_OPERACAO.uA_eq,
     tank_b_supply_valve |-> PONTO_OPERACAO.uB_eq,
     tank_c_water_pump |-> PONTO_OPERACAO.u1_eq,
     tank_c_brine_pump |-> PONTO_OPERACAO.u2_eq,
     tank_c_outlet_valve |-> PONTO_OPERACAO.u3_eq,
     tank_d_water_pump |-> PONTO_OPERACAO.u1_eq,
     tank_d_brine_pump |-> PONTO_OPERACAO.u2_eq,
     tank_d_outlet_valve |-> PONTO_OPERACAO.u3_eq,
     tank_e_water_pump |-> PONTO_OPERACAO.u1_eq,
     tank_e_brine_pump |-> PONTO_OPERACAO.u2_eq,
     tank_e_outlet_valve |-> PONTO_OPERACAO.u3_eq]

ModeloNoEquilibrio ==
    /\ modelo # NoModel
    /\ modelo.tanque_A.nivel = PONTO_OPERACAO.hA_eq
    /\ modelo.tanque_B.nivel = PONTO_OPERACAO.hB_eq
    /\ \A t \in {modelo.tanque_C, modelo.tanque_D, modelo.tanque_E} :
          t.nivel = PONTO_OPERACAO.h_eq /\ t.concentracao = PONTO_OPERACAO.C_eq

AposInitialize ==
    /\ ModeloNoEquilibrio
    /\ realtime_service.current_state = EquilibrioEstado
    /\ realtime_service.setpoints = EquilibrioEstado
    /\ realtime_service.control_actions = EquilibrioControle
    /\ realtime_service.is_running
    /\ ~realtime_service.is_paused
    /\ realtime_service.session_id = emitidos[Len(emitidos)]
    /\ \A i \in 1..(Len(emitidos) - 1) : emitidos[i] # emitidos[Len(emitidos)]

SoSetpointsMudam ==
    /\ realtime_service' = [realtime_service EXCEPT !.setpoints = realtime_service'.setpoints]
    /\ modelo' = modelo
    /\ controladores' = controladores

\* C9: update_setpoint(tank_id, variable, value) with the key
\* tank_id_variable in the setpoint map sets that entry to value and leaves
\* every other entry, the model, the actuators and the flags unchanged; with
\* the key absent, before initialize included, it changes nothing.
C9_UpdateSetpoint ==
    [][\A c \in Conns, command \in SetpointInputs :
          CmdSetpoint(c, command) =>
              LET key == command.tank_id \o "_" \o command.variable
                  antes == realtime_service.setpoints
                  depois == realtime_service'.setpoints
              IN  /\ SoSetpointsMudam
                  /\ DOMAIN depois = DOMAIN antes
                  /\ \A k \in DOMAIN antes :
                        depois[k] = IF k = key THEN command.value ELSE antes[k]]_vars

\* a reservoir setpoint and a process-tank setpoint were both overwritten
C9_Witness ==
    /\ realtime_service.setpoints # EmptyDict
    /\ realtime_service.setpoints["tank_c_level"] = 170
    /\ realtime_service.setpoints["tank_a_level"] = 120
    /\ realtime_service.setpoints["tank_d_level"] = PONTO_OPERACAO.h_eq

\* C10: pause() changes only the paused flag, and while the session stays
\* paused no loop pass runs a control cycle or advances the model: model
\* state, control_actions and the controllers' accumulators do not change
\* unless a reset command arrives.
C10_Pause ==
    [][/\ \A c \in Conns :
             CmdPause(c) =>
                 /\ realtime_service' = [realtime_service EXCEPT !.is_paused = TRUE]
                 /\ modelo' = modelo
                 /\ controladores' = controladores
       /\ (realtime_service.is_paused /\ realtime_service'.is_paused
             /\ ~(\E c \in Conns : CmdReset(c)))
          => /\ modelo' = modelo
             /\ controladores' = controladores
             /\ realtime_service'.control_actions = realtime_service.control_actions]_vars

\* the loop made a pass while paused at a time when a physics advance was due
C10_Witness ==
    /\ realtime_service.is_paused
    /\ \E c \in Conns :
          /\ conns[c].loop = "sleeping"
          /\ conns[c].saltou
          /\ (conns[c].wake - realtime_service.sampling_interval)
                - realtime_service.last_update_time >= realtime_service.integration_step

\* a physics advance is made by this step of connection c
AvancoFisico(c) ==
    /\ LoopFisica(c)
    /\ conns[c].current_time - realtime_service.last_update_time
          >= realtime_service.integration_step

\* C11: resume() re-bases both timestamps to the time of the call, so that
\* after a pause of any duration followed by resume, the dt of a physics
\* advance made by the loop is at most the time elapsed since the resume, and
\* a control cycle runs only when a whole control interval has elapsed since
\* the resume.
C11_Resume ==
    [][\A c \in Conns :
          /\ CmdResume(c) =>
                /\ ~realtime_service'.is_paused
                /\ realtime_service'.last_update_time = now
                /\ realtime_service'.last_control_time = now
          /\ (AvancoFisico(c) /\ pausa.fim >= 0) =>
                /\ conns[c].current_time - realtime_service.last_update_time
                      <= conns[c].current_time - pausa.fim
                /\ modelo' = integrate_physics_step(realtime_service, modelo,
                       conns[c].current_time - realtime_service.last_update_time)
          /\ (LoopControle(c) /\ ControleVencido /\ pausa.fim >= 0) =>
                now - pausa.fim >= realtime_service.control_interval]_vars

\* the session stayed paused while the clock advanced, was resumed, and the
\* loop has just made its first physics advance since
C11_Witness ==
    /\ pausa.inicio >= 0
    /\ pausa.fim > pausa.inicio
    /\ \E c \in Conns :
          /\ conns[c].loop = "estado"
          /\ conns[c].current_time > pausa.fim
          /\ realtime_service.last_update_time = conns[c].current_time
          /\ realtime_service.last_control_time = pausa.fim

\* a reset command is handled by this step on a session that initialize built
ResetInicializado(c) ==
    CmdReset(c) /\ modelo # NoModel /\ controladores # NoControl

\* C12: after reset() on an initialized session the model state equals the
\* equilibrium state, the setpoint map equals the equilibrium point and
\* control_actions equals the equilibrium actuator vector.
C12_Reset ==
    [][\A c \in Conns :
          ResetInicializado(c) =>
              /\ ModeloNoEquilibrio'
              /\ realtime_service'.setpoints = EquilibrioEstado
              /\ realtime_service'.control_actions = EquilibrioControle]_vars

\* C13: reset() re-bases last_update_time and last_control_time to the time
\* of the reset.
C13_ResetRebase ==
    [][\A c \in Conns :
          ResetInicializado(c) =>
              /\ realtime_service'.last_update_time = now
              /\ realtime_service'.last_control_time = now]_vars

\* C14: reset() leaves the accumulators and previous-action memories of the
\* three MPC controllers and the integrals of the two PI controllers as they
\* were, and does not change is_running, is_paused or the session id.
C14_ResetFrame ==
    [][\A c \in Conns :
          CmdReset(c) =>
              /\ controladores' = controladores
              /\ realtime_service'.is_running = realtime_service.is_running
              /\ realtime_service'.is_paused = realtime_service.is_paused
              /\ realtime_service'.session_id = realtime_service.session_id]_vars

\* a paused session whose controllers have run a cycle has just been reset
C14_Witness ==
    /\ \E c \in Conns : conns[c].data = "reset"
    /\ realtime_service.is_paused
    /\ realtime_service.is_running
    /\ controladores # NoControl
    /\ controladores # SistemaControle(realtime_service.control_interval)
    /\ controladores.mpc_C.u_anterior # u_eq

\* C15: once shutdown() has returned, no pass of the loop runs a control
\* cycle or a physics advance or starts a telemetry send: a loop task that
\* reaches its while test leaves the loop.  A send that was already awaited
\* when shutdown ran may still complete.
C15_Shutdown ==
    [][lifespan = "down" =>
          /\ ~realtime_service.is_running
          /\ realtime_service' = realtime_service
          /\ modelo' = modelo
          /\ controladores' = controladores
          /\ \A c \in Conns :
                /\ conns'[c].loop = "sending" => conns[c].loop = "sending"
                /\ conns'[c].loop \notin PosicoesSincronas
                /\ (LoopPronto(c) /\ conns'[c].loop # conns[c].loop)
                      => conns'[c].loop = "done"]_vars

\* shutdown ran while the loop of an initialized session slept, and the sleep
\* is over: the task is about to make its while test
C15_Witness ==
    /\ lifespan = "down"
    /\ modelo # NoModel
    /\ \E c \in Conns :
          /\ conns[c].listener = "open"
          /\ conns[c].loop = "sleeping"
          /\ now >= conns[c].wake

\* C16: a send_json that raises does not end the loop of a running session:
\* the task goes on to its sleep and to later passes.
C16_EnvioFalho ==
    [][\A c \in Conns :
          (LoopEnvio(c) /\ realtime_service.is_running)
              => conns'[c].loop = "sleeping"]_vars

\* C17: once the command listener of a connection has ended, by a
\* disconnect or by any other error, the loop task of that connection has
\* been cancelled.
C17_ListenerFim ==
    \A c \in Conns :
       conns[c].listener = "closed" => conns[c].loop \in {"none", "done"}

\* C18: update_setpoint, pause, resume and reset run only between the
\* synchronous parts of two passes: while a loop task is between the start
\* of its control cycle and the end of its snapshot refresh, the only step
\* taken is that task's own next step, no command is received, and the
\* setpoint map, the paused flag and the model are changed by nothing else.
C18_Atomicidade ==
    [][\A c \in Conns :
          conns[c].loop \in PosicoesSincronas =>
              /\ LoopFisica(c) \/ LoopEstado(c)
              /\ gasto' = gasto
              /\ \A d \in Conns : conns'[d].data = conns[d].data
              /\ realtime_service'.setpoints = realtime_service.setpoints
              /\ realtime_service'.is_paused = realtime_service.is_paused
              /\ realtime_service'.last_control_time = realtime_service.last_control_time
              /\ realtime_service'.last_update_time
                    \in {realtime_service.last_update_time, conns[c].current_time}]_vars

\* a loop task is inside a pass while the listener of the same connection,
\* which has already handled a command, could receive another one
C18_Witness ==
    \E c \in Conns :
       /\ conns[c].loop = "estado"
       /\ conns[c].listener = "open"
       /\ conns[c].data = "setpoint"
       /\ gasto.cmds < MaxCmds
       /\ lifespan = "up"

\* the integral that a PI controller holds after a call whose tracking error
\* is taken against the setpoint sp
IntegralContra(p, sp, nivel_medido, Ts) ==
    PID_calcular_controle([p EXCEPT !.setpoint = sp], nivel_medido, Ts).p.erro_integral

\* an MPC accumulator is either untouched or advanced by the error against ref
AcumuladoContra(antes, depois, x, ref) ==
    depois.erro_integral \in
        {antes.erro_integral, VAdd(antes.erro_integral, VSub(x, ref))}

\* C19: on every control cycle each controller computes its tracking error
\* against the current entry of the setpoint map: the PI controllers of A
\* and B against tank_a_level and tank_b_level, the MPCs of C, D and E
\* against their level and concentration entries.
C19_SetpointsLidos ==
    [][\A c \in Conns :
          (LoopControle(c) /\ ControleVencido /\ modelo # NoModel) =>
              LET x == obter_estado(modelo).ret
                  sp == realtime_service.setpoints
                  antes == controladores
                  depois == controladores'
              IN  /\ depois.pid_A.erro_integral =
                        IntegralContra(antes.pid_A, sp["tank_a_level"], x[1], antes.Ts)
                  /\ depois.pid_B.erro_integral =
                        IntegralContra(antes.pid_B, sp["tank_b_level"], x[2], antes.Ts)
                  /\ AcumuladoContra(antes.mpc_C, depois.mpc_C, <<x[3], x[4]>>,
                        <<sp["tank_c_level"], sp["tank_c_concentration"]>>)
                  /\ AcumuladoContra(antes.mpc_D, depois.mpc_D, <<x[5], x[6]>>,
                        <<sp["tank_d_level"], sp["tank_d_concentration"]>>)
                  /\ AcumuladoContra(antes.mpc_E, depois.mpc_E, <<x[7], x[8]>>,
                        <<sp["tank_e_level"], sp["tank_e_concentration"]>>)]_vars

ControlesAplicados ==
    Vec([i \in 1..Len(CHAVES_CONTROLE) |->
            realtime_service.control_actions[CHAVES_CONTROLE[i]]])

\* C20: a non-paused pass runs, in this order, the control cycle (only when
\* control_interval has elapsed since last_control_time), the physics advance
\* (only when integration_step has elapsed since last_update_time, with the
\* actuators that the control step left in control_actions), the snapshot
\* refresh and the send, whose variables are the model state after the
\* advance.
C20_OrdemDosPassos ==
    [][\A c \in Conns :
          /\ conns'[c].loop # conns[c].loop =>
                /\ conns'[c].loop = "fisica" => conns[c].loop \in {"start", "sleeping"}
                /\ conns'[c].loop = "estado" => conns[c].loop = "fisica"
                /\ conns'[c].loop = "sending" => conns[c].loop = "estado"
          /\ LoopControle(c) =>
                IF ControleVencido
                THEN realtime_service'.last_control_time = now
                ELSE realtime_service' = realtime_service /\ controladores' = controladores
          /\ LoopFisica(c) =>
                IF AvancoFisico(c)
                THEN /\ modelo' = integrar_passo(modelo, ControlesAplicados,
                            Decimos(conns[c].current_time
                                    - realtime_service.last_update_time),
                            "euler").m
                     /\ realtime_service' =
                           [realtime_service EXCEPT
                               !.last_update_time = conns[c].current_time]
                ELSE modelo' = modelo /\ realtime_service' = realtime_service
          /\ LoopEstado(c) =>
                /\ obter_estado(modelo').ret = obter_estado(modelo).ret
                /\ realtime_service' =
                      [realtime_service EXCEPT
                          !.current_state =
                              ZipDict(CHAVES_ESTADO, obter_estado(modelo').ret)]]_vars

\* a pass ran a control cycle that moved the actuators, advanced the model
\* with them and is now sending the refreshed snapshot
C20_Witness ==
    \E c \in Conns :
       /\ conns[c].loop = "sending"
       /\ realtime_service.last_control_time = now
       /\ realtime_service.last_update_time = now
       /\ now > 0
       /\ realtime_service.control_actions # EquilibrioControle
       /\ realtime_service.current_state # EquilibrioEstado
       /\ realtime_service.current_state["tank_c_level"] # PONTO_OPERACAO.h_eq
       /\ realtime_service.current_state = ZipDict(CHAVES_ESTADO, obter_estado(modelo).ret)

\* C30: from initialize onwards, whatever commands and loop passes follow,
\* the setpoint map has exactly the eight keys tank_a_level, tank_b_level and
\* tank_{c,d,e}_{level,concentration}, so the six references of a control
\* cycle are always there.
C30_OitoChaves ==
    modelo # NoModel =>
        /\ DOMAIN realtime_service.setpoints
             = {"tank_a_level", "tank_b_level", "tank_c_level", "tank_c_concentration",
                "tank_d_level", "tank_d_concentration", "tank_e_level",
                "tank_e_concentration"}
        /\ DOMAIN montar_referencias(realtime_service)
             = {"hC_ref", "CC_ref", "hD_ref", "CD_ref", "hE_ref", "CE_ref"}

\* an initialized session that took two commands, the last one a reset that
\* followed a pass of the loop which ran a control cycle
C30_Witness ==
    /\ modelo # NoModel
    /\ gasto.cmds = 2
    /\ \E c \in Conns : conns[c].data = "reset" /\ conns[c].loop = "sleeping"
                        /\ ~conns[c].saltou
    /\ realtime_service.last_control_time > 0
    /\ realtime_service.setpoints = realtime_service.current_state

----------------------------------------------------------------------------
(* Two clients connected to the endpoint at the same time: every connection  *)
(* creates its own task running run_realtime_loop on the one service         *)

InitDuas ==
    /\ modelo = NoModel
    /\ controladores = NoControl
    /\ last = NoCall
    /\ nops = 0
    /\ lastMpc = NoMpcCall
    /\ realtime_service = RealTimeService(0)
    /\ now = 0
    /\ lifespan = "up"
    /\ conns = [c \in DoisSockets |-> NoConn]
    /\ emitidos = << >>
    /\ gasto = [cmds |-> 0, ticks |-> 0]
    /\ pausa = [inicio |-> -1, fim |-> -1]

NextDuas ==
    \/ Initialize
    \/ Tick
    \/ \E c \in Conns :
          \/ Connect(c)
          \/ ListenerDisconnect(c)
          \/ LoopSai(c)
          \/ LoopControle(c)
          \/ LoopFisica(c)
          \/ LoopEstado(c)
          \/ LoopEnvio(c)

SpecDuas == InitDuas /\ [][NextDuas]_vars

\* the task of connection c is inside the while loop of run_realtime_loop,
\* in the synchronous part of a pass or suspended at send_json or sleep
DentroDoLaco(c) == conns[c].loop \in {"fisica", "estado", "sending", "sleeping"}

\* C29: at any time at most one task is inside the main loop of the service,
\* driving its model, its controllers and its two timestamps.
C29_UmaSoTarefa ==
    \A c \in Conns, d \in Conns : (DentroDoLaco(c) /\ DentroDoLaco(d)) => c = d

====
